---- MODULE Spec2Model ----
(***************************************************************************)
(* Model of the natural-language mixing pipeline of src/mix_engineer.py:   *)
(* PromptParser (text -> ordered operation list), MixSession (version      *)
(* counter, history, persisted record) and MixEngineer (process_prompt,    *)
(* undo, set_source, start_session).                                       *)
(*                                                                         *)
(* A text is a sequence of one-character strings, so that the substring    *)
(* tests of PromptParser are computed as Python's `in` computes them.      *)
(* Floating point parameters are kept as scaled integers: reverb           *)
(* room_size, damping and wet in hundredths, stereo width in tenths.       *)
(***************************************************************************)
EXTENDS Integers, Sequences, FiniteSets, TLC

\* ------------------------------------------------------------------ text

\* str.lower() on the letters a prompt may hold
UpperToLower ==
    [A |-> "a", B |-> "b", C |-> "c", D |-> "d", E |-> "e", F |-> "f", G |-> "g",
     H |-> "h", I |-> "i", J |-> "j", K |-> "k", L |-> "l", M |-> "m", N |-> "n",
     O |-> "o", P |-> "p", Q |-> "q", R |-> "r", S |-> "s", T |-> "t", U |-> "u",
     V |-> "v", W |-> "w", X |-> "x", Y |-> "y", Z |-> "z"]

lower(text) ==
    [i \in 1..Len(text) |->
        IF text[i] \in DOMAIN UpperToLower THEN UpperToLower[text[i]] ELSE text[i]]

\* Python's `kw in text` on strings: kw occurs as a contiguous substring
Contains(text, kw) ==
    \E i \in 1..(Len(text) - Len(kw) + 1) : SubSeq(text, i, i + Len(kw) - 1) = kw

\* any(kw in text for kw in keywords)
AnyKeyword(text, keywords) ==
    \E k \in 1..Len(keywords) : Contains(text, keywords[k])

\* PromptParser.EQ_KEYWORDS
EQ_KEYWORDS ==
    << <<"e","q">>,
       <<"e","q","u","a","l","i","z","e","r">>,
       <<"b","a","s","s">>,
       <<"t","r","e","b","l","e">>,
       <<"m","i","d">>,
       <<"m","i","d","s">>,
       <<"h","i","g","h","s">>,
       <<"l","o","w","s">>,
       <<"f","r","e","q","u","e","n","c","y">>,
       <<"f","r","e","q","u","e","n","c","i","e","s">>,
       <<"b","r","i","g","h","t">>,
       <<"d","a","r","k">>,
       <<"w","a","r","m">>,
       <<"m","u","d","d","y">>,
       <<"c","r","i","s","p">> >>

\* PromptParser.COMPRESSION_KEYWORDS
COMPRESSION_KEYWORDS ==
    << <<"c","o","m","p","r","e","s","s">>,
       <<"c","o","m","p","r","e","s","s","i","o","n">>,
       <<"c","o","m","p","r","e","s","s","o","r">>,
       <<"d","y","n","a","m","i","c","s">>,
       <<"p","u","n","c","h">>,
       <<"p","u","n","c","h","y">>,
       <<"s","q","u","a","s","h">>,
       <<"g","l","u","e">>,
       <<"t","h","i","c","k">> >>

\* PromptParser.REVERB_KEYWORDS
REVERB_KEYWORDS ==
    << <<"r","e","v","e","r","b">>,
       <<"r","o","o","m">>,
       <<"h","a","l","l">>,
       <<"s","p","a","c","e">>,
       <<"a","m","b","i","e","n","t">>,
       <<"w","e","t">>,
       <<"d","r","y">>,
       <<"a","t","m","o","s","p","h","e","r","e">>,
       <<"d","e","p","t","h">> >>

\* PromptParser.VOLUME_KEYWORDS
VOLUME_KEYWORDS ==
    << <<"v","o","l","u","m","e">>,
       <<"l","e","v","e","l">>,
       <<"l","o","u","d">>,
       <<"q","u","i","e","t">>,
       <<"g","a","i","n">>,
       <<"b","o","o","s","t">>,
       <<"c","u","t">>,
       <<"t","u","r","n"," ","u","p">>,
       <<"t","u","r","n"," ","d","o","w","n">>,
       <<"l","o","u","d","e","r">>,
       <<"s","o","f","t","e","r">> >>

\* PromptParser.MASTER_KEYWORDS
MASTER_KEYWORDS ==
    << <<"m","a","s","t","e","r">>,
       <<"m","a","s","t","e","r","i","n","g">>,
       <<"f","i","n","a","l","i","z","e">>,
       <<"p","o","l","i","s","h">>,
       <<"s","t","r","e","a","m","i","n","g">>,
       <<"s","p","o","t","i","f","y">>,
       <<"r","e","l","e","a","s","e">>,
       <<"f","i","n","a","l">> >>

\* PromptParser.STYLE_KEYWORDS
STYLE_KEYWORDS_Hello == <<<<"h","e","l","l","o">>>>

STYLE_KEYWORDS ==
    << <<"s","t","y","l","e">>,
       <<"g","e","n","r","e">>,
       <<"v","i","b","e">>,
       <<"f","e","e","l">>,
       <<"m","o","o","d">>,
       <<"s","o","u","n","d"," ","l","i","k","e">>,
       <<"s","i","m","i","l","a","r"," ","t","o">>,
       <<"r","e","m","a","k","e">>,
       <<"r","e","i","m","a","g","i","n","e">>,
       <<"v","e","r","s","i","o","n">> >>

\* PromptParser.WIDTH_KEYWORDS
WIDTH_KEYWORDS ==
    << <<"s","t","e","r","e","o">>,
       <<"w","i","d","t","h">>,
       <<"w","i","d","e">>,
       <<"n","a","r","r","o","w">>,
       <<"m","o","n","o">>,
       <<"s","p","r","e","a","d">> >>

\* ------------------------------------------------------- PromptParser

\* PromptParser._parse_eq: three independent if/elif chains over one dict;
\* a later chain overwrites what an earlier one wrote to the same key.
parse_eq(prompt) ==
    LET p0 == [bass |-> 0, mid |-> 0, treble |-> 0]
        p1 == IF Contains(prompt, <<"m","o","r","e"," ","b","a","s","s">>) \/ Contains(prompt, <<"b","o","o","s","t"," ","b","a","s","s">>)
                 \/ Contains(prompt, <<"a","d","d"," ","b","a","s","s">>)
              THEN [p0 EXCEPT !.bass = 4]
              ELSE IF Contains(prompt, <<"l","e","s","s"," ","b","a","s","s">>) \/ Contains(prompt, <<"c","u","t"," ","b","a","s","s">>)
                      \/ Contains(prompt, <<"r","e","d","u","c","e"," ","b","a","s","s">>)
              THEN [p0 EXCEPT !.bass = -4]
              ELSE IF Contains(prompt, <<"w","a","r","m">>)
              THEN [p0 EXCEPT !.bass = 2, !.treble = -1]
              ELSE p0
        p2 == IF Contains(prompt, <<"m","o","r","e"," ","t","r","e","b","l","e">>) \/ Contains(prompt, <<"b","r","i","g","h","t","e","r">>)
                 \/ Contains(prompt, <<"c","r","i","s","p">>) \/ Contains(prompt, <<"b","r","i","g","h","t">>)
              THEN [p1 EXCEPT !.treble = 3]
              ELSE IF Contains(prompt, <<"l","e","s","s"," ","t","r","e","b","l","e">>) \/ Contains(prompt, <<"d","a","r","k">>)
                      \/ Contains(prompt, <<"d","a","r","k","e","r">>)
              THEN [p1 EXCEPT !.treble = -3]
              ELSE p1
        p3 == IF Contains(prompt, <<"m","o","r","e"," ","m","i","d","s">>) \/ Contains(prompt, <<"b","o","o","s","t"," ","m","i","d","s">>)
              THEN [p2 EXCEPT !.mid = 3]
              ELSE IF Contains(prompt, <<"l","e","s","s"," ","m","i","d","s">>) \/ Contains(prompt, <<"s","c","o","o","p">>)
                      \/ Contains(prompt, <<"s","c","o","o","p","e","d">>)
              THEN [p2 EXCEPT !.mid = -4]
              ELSE IF Contains(prompt, <<"m","u","d","d","y">>) \/ Contains(prompt, <<"c","l","e","a","r">>)
              THEN [p2 EXCEPT !.mid = -2, !.treble = 2]
              ELSE p2
    IN  p3

\* PromptParser._parse_compression
parse_compression(prompt) ==
    LET p0 == [threshold |-> -20, ratio |-> 4, attack |-> 5, release |-> 50]
    IN  IF Contains(prompt, <<"h","e","a","v","y">>) \/ Contains(prompt, <<"s","q","u","a","s","h">>)
        THEN [p0 EXCEPT !.ratio = 8, !.threshold = -25]
        ELSE IF Contains(prompt, <<"l","i","g","h","t">>) \/ Contains(prompt, <<"g","e","n","t","l","e">>)
        THEN [p0 EXCEPT !.ratio = 2, !.threshold = -15]
        ELSE IF Contains(prompt, <<"p","u","n","c","h">>) \/ Contains(prompt, <<"p","u","n","c","h","y">>)
        THEN [p0 EXCEPT !.attack = 20, !.ratio = 4]
        ELSE IF Contains(prompt, <<"g","l","u","e">>)
        THEN [p0 EXCEPT !.ratio = 2, !.threshold = -10]
        ELSE p0

\* PromptParser._parse_reverb (values in hundredths: 0.5 is 50)
parse_reverb(prompt) ==
    LET p0 == [room_size |-> 50, damping |-> 50, wet |-> 30]
        p1 == IF Contains(prompt, <<"h","a","l","l">>) \/ Contains(prompt, <<"l","a","r","g","e">>)
                 \/ Contains(prompt, <<"b","i","g">>)
              THEN [p0 EXCEPT !.room_size = 90, !.wet = 40]
              ELSE IF Contains(prompt, <<"r","o","o","m">>) \/ Contains(prompt, <<"s","m","a","l","l">>)
              THEN [p0 EXCEPT !.room_size = 30, !.wet = 20]
              ELSE IF Contains(prompt, <<"p","l","a","t","e">>)
              THEN [p0 EXCEPT !.room_size = 60, !.damping = 30]
              ELSE p0
    IN  IF Contains(prompt, <<"w","e","t">>) \/ Contains(prompt, <<"l","o","t","s"," ","o","f">>)
           \/ Contains(prompt, <<"m","o","r","e"," ","r","e","v","e","r","b">>)
        THEN [p1 EXCEPT !.wet = 50]
        ELSE IF Contains(prompt, <<"d","r","y">>) \/ Contains(prompt, <<"s","u","b","t","l","e">>)
                \/ Contains(prompt, <<"l","e","s","s"," ","r","e","v","e","r","b">>)
        THEN [p1 EXCEPT !.wet = 15]
        ELSE p1

\* the character classes of the regular expression ([+-]?\d+)\s*db
DigitValue ==
    [c \in {"0", "1", "2", "3", "4", "5", "6", "7", "8", "9"} |->
        CASE c = "0" -> 0 [] c = "1" -> 1 [] c = "2" -> 2 [] c = "3" -> 3
          [] c = "4" -> 4 [] c = "5" -> 5 [] c = "6" -> 6 [] c = "7" -> 7
          [] c = "8" -> 8 [] c = "9" -> 9]

IsDigit(c) == c \in DOMAIN DigitValue

IsSpace(c) == c = " "

\* the end of the run of digits (of spaces) that starts at index i
RECURSIVE SkipDigits(_, _)
SkipDigits(text, i) ==
    IF i <= Len(text) /\ IsDigit(text[i]) THEN SkipDigits(text, i + 1) ELSE i

RECURSIVE SkipSpaces(_, _)
SkipSpaces(text, i) ==
    IF i <= Len(text) /\ IsSpace(text[i]) THEN SkipSpaces(text, i + 1) ELSE i

\* int() of the digits text[i..j-1]
RECURSIVE DigitsToInt(_, _, _)
DigitsToInt(text, i, j) ==
    IF j <= i THEN 0 ELSE 10 * DigitsToInt(text, i, j - 1) + DigitValue[text[j - 1]]

\* Whether ([+-]?\d+)\s*db matches starting exactly at index i. The two
\* greedy runs cannot give characters back: what follows a shorter run of
\* digits (spaces) is a digit (a space), never the next token.
DbMatchAt(text, i) ==
    LET signed == i <= Len(text) /\ text[i] \in {"+", "-"}
        d0 == IF signed THEN i + 1 ELSE i
        d1 == SkipDigits(text, d0)
        s1 == SkipSpaces(text, d1)
    IN  /\ i <= Len(text)
        /\ d1 > d0
        /\ s1 + 1 <= Len(text)
        /\ text[s1] = "d"
        /\ text[s1 + 1] = "b"

\* int(db_match.group(1)) for the match starting at i
DbValueAt(text, i) ==
    LET signed == text[i] \in {"+", "-"}
        d0 == IF signed THEN i + 1 ELSE i
        n  == DigitsToInt(text, d0, SkipDigits(text, d0))
    IN  IF text[i] = "-" THEN 0 - n ELSE n

\* PromptParser._parse_volume: the qualitative if/elif chain, then
\* re.search (the leftmost match) overriding it
parse_volume(prompt) ==
    LET q == IF Contains(prompt, <<"l","o","u","d","e","r">>) \/ Contains(prompt, <<"t","u","r","n"," ","u","p">>)
                \/ Contains(prompt, <<"b","o","o","s","t">>)
             THEN 3
             ELSE IF Contains(prompt, <<"q","u","i","e","t","e","r">>) \/ Contains(prompt, <<"t","u","r","n"," ","d","o","w","n">>)
                     \/ Contains(prompt, <<"r","e","d","u","c","e">>)
             THEN -3
             ELSE IF Contains(prompt, <<"m","u","c","h"," ","l","o","u","d","e","r">>)
             THEN 6
             ELSE IF Contains(prompt, <<"m","u","c","h"," ","q","u","i","e","t","e","r">>)
             THEN -6
             ELSE 0
        starts == {i \in 1..Len(prompt) : DbMatchAt(prompt, i)}
    IN  IF starts = {}
        THEN [db |-> q]
        ELSE [db |-> DbValueAt(prompt, CHOOSE i \in starts : \A j \in starts : i <= j)]

\* PromptParser._parse_width (values in tenths: 1.5 is 15)
parse_width(prompt) ==
    IF Contains(prompt, <<"w","i","d","e","r">>) \/ Contains(prompt, <<"s","p","r","e","a","d">>)
       \/ Contains(prompt, <<"w","i","d","e">>)
    THEN [width |-> 15]
    ELSE IF Contains(prompt, <<"n","a","r","r","o","w">>) \/ Contains(prompt, <<"m","o","n","o">>)
            \/ Contains(prompt, <<"c","e","n","t","e","r","e","d">>)
    THEN [width |-> 5]
    ELSE IF Contains(prompt, <<"v","e","r","y"," ","w","i","d","e">>)
    THEN [width |-> 20]
    ELSE [width |-> 10]

Op(type, params) == [type |-> type, params |-> params]

\* the params of a master operation: the empty dict
NoParams == [x \in {} |-> 0]

Appended_ReverbFirst(eq, co, re, vo, wi, ma) == re \o eq \o co \o vo \o wi \o ma

\* result['operations'] after the six tests: each family appends in turn
Appended(eq, co, re, vo, wi, ma) == eq \o co \o re \o vo \o wi \o ma

\* PromptParser.parse: one test per family, in the fixed order of the code.
\* `if eq_params:` is the truth value of a dict with three keys: always true.
parse(prompt) ==
    LET p == lower(prompt)
        eq == IF AnyKeyword(p, EQ_KEYWORDS) THEN <<Op("eq", parse_eq(p))>> ELSE <<>>
        co == IF AnyKeyword(p, COMPRESSION_KEYWORDS)
              THEN <<Op("compression", parse_compression(p))>> ELSE <<>>
        re == IF AnyKeyword(p, REVERB_KEYWORDS)
              THEN <<Op("reverb", parse_reverb(p))>> ELSE <<>>
        vo == IF AnyKeyword(p, VOLUME_KEYWORDS)
              THEN <<Op("volume", parse_volume(p))>> ELSE <<>>
        wi == IF AnyKeyword(p, WIDTH_KEYWORDS)
              THEN <<Op("stereo_width", parse_width(p))>> ELSE <<>>
        ma == IF AnyKeyword(p, MASTER_KEYWORDS) THEN <<Op("master", NoParams)>> ELSE <<>>
    IN  [original |-> prompt,
         operations |-> Appended(eq, co, re, vo, wi, ma),
         requires_suno |-> AnyKeyword(p, STYLE_KEYWORDS),
         requires_audio_processing |->
             \/ AnyKeyword(p, EQ_KEYWORDS)
             \/ AnyKeyword(p, COMPRESSION_KEYWORDS)
             \/ AnyKeyword(p, REVERB_KEYWORDS)
             \/ AnyKeyword(p, VOLUME_KEYWORDS)
             \/ AnyKeyword(p, WIDTH_KEYWORDS)
             \/ AnyKeyword(p, MASTER_KEYWORDS)]

\* ------------------------------------------------------------- bounds

\* how many process_prompt calls of a run get as far as the for loop
MaxBatches == 2

\* how many phrases a text given to parse on its own is made of
MaxPhrases == 2

\* how many jobs add_job creates in a run
MaxJobs == 3

\* the largest max_retries a GenerationQueue is constructed with
MaxRetries == 2

\* how many seconds pass between calls, at most
MaxIdle == 2

\* ------------------------------------------------------------- inputs

\* the texts process_prompt is called with
Prompts ==
    { <<"b","r","i","g","h","t"," ","p","u","n","c","h","y"," ","r","e","v","e","r","b">>,
      <<"m","a","k","e"," ","i","t"," ","w","i","d","e","r">>,
      <<"M","a","s","t","e","r"," ","f","o","r"," ","s","t","r","e","a","m","i","n","g">>,
      <<"f","i","x"," ","t","h","e"," ","e","q">>,
      <<"c","h","a","n","g","e"," ","t","h","e"," ","g","e","n","r","e">>,
      <<"d","a","r","k","e","r"," ","v","i","b","e">>,
      <<"p","o","l","i","s","h"," ","t","h","e"," ","w","i","d","e"," ","m","i","x">>,
      <<"h","e","l","l","o"," ","t","h","e","r","e">> }

\* PromptParser.parse on each of them, computed once
Parsed == [p \in Prompts |-> parse(p)]

\* audio files outside the session directory that exist
Sources == {"a.wav"}

\* a path at which os.path.exists is false
MissingSource == "missing.wav"

\* the file names export is called with
ExportNames == {"mix.mp3"}

\* ------------------------------------------------------------- paths

\* current_file = None
None == [dir |-> "none", tag |-> <<>>, suffix |-> ""]

SourcePath(s) == [dir |-> "external", tag |-> <<>>, suffix |-> s]

\* the decimal digits of n, most significant first
RECURSIVE Digits(_)
Digits(n) == IF n < 10 THEN <<n>> ELSE Digits(n \div 10) \o <<n % 10>>

RECURSIVE ZeroPad(_, _)
ZeroPad(s, width) == IF Len(s) >= width THEN s ELSE ZeroPad(<<0>> \o s, width)

\* the format {version:03d}
Format03d(n) == ZeroPad(Digits(n), 3)

\* MixSession.get_versioned_path, called with the counter at v: the counter
\* becomes v + 1 and the path is session_dir / f"v{v+1:03d}{suffix}.wav"
get_versioned_path(v, suffix) ==
    [version |-> v + 1,
     path |-> [dir |-> "session", tag |-> Format03d(v + 1), suffix |-> suffix]]

\* session_dir.glob(f"v{n:03d}*.wav"): the files of `files` whose name
\* starts with v and the three digits of n
glob_version(files, n) ==
    {f \in files :
        /\ f.dir = "session"
        /\ Len(f.tag) >= Len(Format03d(n))
        /\ SubSeq(f.tag, 1, Len(Format03d(n))) = Format03d(n)}

\* ------------------------------------------------------------- state

VARIABLES
    session,       \* MixEngineer.session is not None
    history,       \* MixSession.history
    current_file,  \* MixSession.current_file
    version,       \* MixSession.version
    stored,        \* sessions/<name>/session.json (NoRecord: no such file)
    files,         \* the .wav files in sessions/<name>/
    pc,            \* "idle", or "loop" inside process_prompt's for loop
    parsed,        \* process_prompt: parsed
    queue,         \* process_prompt: the operations the for loop has yet to visit
    cur,           \* process_prompt: the local current_file
    results,       \* process_prompt: results
    ret,           \* what the last call returned
    calls,         \* the AudioProcessor calls of the current (last) process_prompt
    start,         \* current_file and version when that process_prompt began
    mark,          \* since the last MixSession.set_source: the length history had,
                   \* whether undo reverted, the last artifact the engine produced;
                   \* and how many engine calls have succeeded in all
    artifacts,     \* every output path an engine call has succeeded on
    batches,       \* how many process_prompt calls have entered the for loop
    encode,        \* the exit of the ffmpeg run of export, when the last call
                   \* was an export that ran it ("none" otherwise)
    \* PromptParser.parse called on its own
    parse_prompt,  \* the text it is called with
    parse_result,  \* what it returned (NoParse before the call)
    \* GenerationQueue
    max_retries,   \* the constructor's max_retries
    job_queue,     \* self.queue: the jobs, by reference
    completed,     \* self.completed
    failed,        \* self.failed
    jobs,          \* the GenerationJob objects made so far, in creation order
    clock,         \* int(time.time()), counted from the first second
    qpc,           \* where process_queue is: "idle" or "while"
    jobs_to_process, \* the rest of the slice process_queue iterates over
    job_success,   \* process_queue's local `success`
    taken          \* the three lists, and the slice, when process_queue was called

mixVars ==
    <<session, history, current_file, version, stored, files, pc, parsed, queue,
      cur, results, ret, calls, start, mark, artifacts, batches, encode>>

parserVars == <<parse_prompt, parse_result>>

queueVars ==
    <<max_retries, job_queue, completed, failed, jobs, clock, qpc, jobs_to_process,
      job_success, taken>>

vars == <<mixVars, parserVars, queueVars>>

sessionVars == <<session, history, current_file, version, stored>>

\* `start` outside process_prompt
NoStart == [file |-> None, version |-> 0, history |-> 0]

NoRecord == [exists |-> FALSE]

Record_StaleVersion(h, f, v) ==
    [exists |-> TRUE, history |-> h, current_file |-> f, version |-> 0]

\* what MixSession.save_session writes (a history record's timestamp, which
\* no code reads, is left out)
Record(h, f, v) == [exists |-> TRUE, history |-> h, current_file |-> f, version |-> v]

NoParse == [original |-> <<>>, operations |-> <<>>, requires_suno |-> FALSE,
            requires_audio_processing |-> FALSE]

MixInit ==
    /\ session = FALSE
    /\ history = <<>>
    /\ current_file = None
    /\ version = 0
    /\ stored = NoRecord
    /\ files = {}
    /\ pc = "idle"
    /\ parsed = NoParse
    /\ queue = <<>>
    /\ cur = None
    /\ results = <<>>
    /\ ret = [kind |-> "none"]
    /\ calls = <<>>
    /\ start = NoStart
    /\ mark = [history |-> 0, undone |-> FALSE, output |-> None, done |-> 0]
    /\ artifacts = {}
    /\ batches = 0
    /\ encode = "none"

\* PromptParser.parse has not been called
ParserInit ==
    /\ parse_prompt = <<>>
    /\ parse_result = NoParse

NoCall == [queue |-> <<>>, completed |-> <<>>, failed |-> <<>>, slice |-> <<>>]

\* GenerationQueue.__init__
GenerationQueue_init(retries) ==
    /\ max_retries = retries
    /\ job_queue = <<>>
    /\ completed = <<>>
    /\ failed = <<>>
    /\ jobs = <<>>
    /\ clock = 0
    /\ qpc = "idle"
    /\ jobs_to_process = <<>>
    /\ job_success = FALSE
    /\ taken = NoCall

\* the default of max_retries
DefaultRetries == 3

Init ==
    /\ MixInit
    /\ ParserInit
    /\ GenerationQueue_init(DefaultRetries)

\* ------------------------------------------------------- MixEngineer

\* A call that is not inside process_prompt's loop: the locals of the last
\* process_prompt are gone, and so is the record of its engine calls.
NoLocals ==
    /\ pc' = "idle"
    /\ parsed' = NoParse
    /\ queue' = <<>>
    /\ cur' = None
    /\ results' = <<>>
    /\ calls' = <<>>
    /\ start' = NoStart

\* such a call, when it is not an export that runs ffmpeg
NoLoop ==
    /\ NoLocals
    /\ encode' = "none"

\* MixEngineer.start_session -> MixSession.__init__ -> load_session
start_session ==
    /\ pc = "idle"
    /\ session' = TRUE
    /\ history' = IF stored.exists THEN stored.history ELSE <<>>
    /\ current_file' = IF stored.exists THEN stored.current_file ELSE None
    /\ version' = IF stored.exists THEN stored.version ELSE 0
    /\ ret' = [kind |-> "started",
               after |-> IF ret.kind = "stopped" THEN ret.at ELSE "call"]
    /\ UNCHANGED <<stored, files, mark, artifacts, batches>>
    /\ NoLoop
    /\ UNCHANGED <<parserVars, queueVars>>

ResetVersion_Keep(v) == v

\* MixSession.set_source: `self.version = 0`
ResetVersion(v) == 0

SetSourceFile_Keep(file, file_path) == file

\* MixSession.set_source: `self.current_file = file_path`
SetSourceFile(file, file_path) == file_path

\* MixEngineer.set_source -> MixSession.set_source
set_source ==
    /\ pc = "idle"
    /\ \/ /\ ret' = [kind |-> "set_source", ok |-> FALSE, path |-> SourcePath(MissingSource)]
          /\ UNCHANGED <<mark, artifacts, files>>
          /\ UNCHANGED sessionVars
       \/ /\ ~session
          /\ \E s \in Sources : ret' = [kind |-> "AttributeError", path |-> SourcePath(s)]
          /\ UNCHANGED <<mark, artifacts, files>>
          /\ UNCHANGED sessionVars
       \/ /\ session
          /\ \E s \in Sources :
                /\ current_file' = SetSourceFile(current_file, SourcePath(s))
                /\ ret' = [kind |-> "set_source", ok |-> TRUE, path |-> SourcePath(s)]
                /\ mark' = [history |-> Len(history), undone |-> FALSE,
                            output |-> SourcePath(s), done |-> mark.done]
          /\ version' = ResetVersion(version)
          /\ stored' = Record(history, current_file', version')
          /\ UNCHANGED <<session, history, artifacts, files>>
    /\ UNCHANGED batches
    /\ NoLoop
    /\ UNCHANGED <<parserVars, queueVars>>

Ambiguous_OperationsOnly(p) == p.operations = <<>>

\* `if not parsed['operations'] and not parsed['requires_suno']`
Ambiguous(p) == p.operations = <<>> /\ ~p.requires_suno

LocalOperations_StyleSkips(p) == IF p.requires_suno THEN <<>> ELSE p.operations

\* `for op in parsed['operations']`: what the for loop runs over
LocalOperations(p) == p.operations

\* MixEngineer.process_prompt up to the for loop
process_prompt ==
    /\ pc = "idle"
    /\ \E prompt \in Prompts :
          \/ /\ ~session
             /\ ret' = [kind |-> "no_session"]
             /\ UNCHANGED batches
             /\ NoLoop
          \/ /\ session
             /\ current_file = None
             /\ ret' = [kind |-> "no_source"]
             /\ UNCHANGED batches
             /\ NoLoop
          \/ /\ session
             /\ current_file # None
             /\ Ambiguous(Parsed[prompt])
             /\ ret' = [kind |-> "suggest_operations", prompt |-> prompt]
             /\ UNCHANGED batches
             /\ NoLoop
          \/ /\ session
             /\ current_file # None
             /\ ~Ambiguous(Parsed[prompt])
             /\ batches < MaxBatches
             /\ batches' = batches + 1
             /\ parsed' = Parsed[prompt]
             /\ queue' = LocalOperations(Parsed[prompt])
             /\ results' = <<>>
             /\ cur' = current_file
             /\ calls' = <<>>
             /\ start' = [file |-> current_file, version |-> version,
                          history |-> Len(history)]
             /\ pc' = "loop"
             /\ encode' = "none"
             /\ UNCHANGED ret
    /\ UNCHANGED <<mark, artifacts, files>>
    /\ UNCHANGED sessionVars
    /\ UNCHANGED <<parserVars, queueVars>>

\* What one AudioProcessor call can do. apply_eq returns False without
\* running ffmpeg when the three gains are 0 ("rejected"). Otherwise the
\* call returns `returncode == 0`: ffmpeg exits 0 and has written the
\* output file ("ok"), or exits non-zero ("failed"), which is taken to
\* leave no output file behind. ffmpeg is taken to be installed:
\* subprocess.run returns and does not raise.
AudioOutcomes(op) ==
    IF op.type = "eq" /\ op.params.bass = 0 /\ op.params.mid = 0 /\ op.params.treble = 0
    THEN {"rejected"}
    ELSE {"ok", "failed"}

\* the counter and the output path after the get_versioned_path calls of
\* one loop iteration: one call, and for master a second one whose path
\* (temp_file) is never used
Slot(v, type) ==
    LET out == get_versioned_path(v, "_" \o type)
    IN  [path |-> out.path,
         version |-> IF type = "master"
                     THEN get_versioned_path(out.version, "_master_temp").version
                     ELSE out.version]

MasterFilters_LimiterFirst ==
    << "alimiter=limit=-1dB:level=false",
       "highpass=f=30",
       "acompressor=threshold=-18dB:ratio=3:attack=10:release=100",
       "equalizer=f=100:t=q:w=1:g=1,equalizer=f=10000:t=q:w=1:g=1.5",
       "loudnorm=I=-14:TP=-1.5:LRA=11" >>

\* the `filters` list of the master branch
MasterFilters ==
    << "highpass=f=30",
       "acompressor=threshold=-18dB:ratio=3:attack=10:release=100",
       "equalizer=f=100:t=q:w=1:g=1,equalizer=f=10000:t=q:w=1:g=1.5",
       "alimiter=limit=-1dB:level=false",
       "loudnorm=I=-14:TP=-1.5:LRA=11" >>

\* what is handed to AudioProcessor.chain_effects: the master branch is
\* the only caller, the other branches call one apply_* function each
ChainEffects(type) == IF type = "master" THEN MasterFilters ELSE <<>>

ResultLines_Silent(ok, type) == <<[line |-> "applied", type |-> type]>>

\* what one iteration appends to `results`: the line of the operation,
\* whatever the engine returned, and the warning when it returned False
ResultLines(ok, type) ==
    IF ok THEN <<[line |-> "applied", type |-> type]>>
    ELSE <<[line |-> "applied", type |-> type], [line |-> "failed", type |-> type]>>

NextInput_Always(success, output, input) == output

\* `if success: current_file = output_file`: the input of the next operation
NextInput(success, output, input) == IF success THEN output ELSE input

CommitFile_Always(success, output, file) == output

\* `if success: self.session.current_file = output_file`
CommitFile(success, output, file) == IF success THEN output ELSE file

CommitHistory_Reset(success, h, op, v) ==
    IF success
    THEN <<[action |-> op.type, params |-> op.params, result |-> "success",
            version |-> v]>>
    ELSE h

\* `if success: self.session.add_action(op_type, params, "success")`, else
\* nothing is recorded
CommitHistory(success, h, op, v) ==
    IF success
    THEN Append(h, [action |-> op.type, params |-> op.params, result |-> "success",
                    version |-> v])
    ELSE h

SaveOnSuccess_Never(success, record, old) == old

\* add_action ends with save_session; a failed operation saves nothing
SaveOnSuccess(success, record, old) == IF success THEN record ELSE old

RestOfLoop_Break(success, q) == IF success THEN Tail(q) ELSE <<>>

\* the for loop goes on to the next operation whatever `success` is
RestOfLoop(success, q) == Tail(q)

\* one iteration of process_prompt's for loop
apply_operation ==
    /\ pc = "loop"
    /\ queue # <<>>
    /\ \E outcome \in AudioOutcomes(Head(queue)) :
          LET op == Head(queue)
              slot == Slot(version, op.type)
              success == outcome = "ok"
          IN  /\ version' = slot.version
              /\ calls' = Append(calls, [type |-> op.type, input |-> cur,
                                         output |-> slot.path, outcome |-> outcome,
                                         chain |-> ChainEffects(op.type)])
              /\ files' = IF success THEN files \cup {slot.path} ELSE files
              /\ artifacts' = IF success THEN artifacts \cup {slot.path} ELSE artifacts
              /\ mark' = IF success
                         THEN [mark EXCEPT !.output = slot.path, !.done = @ + 1]
                         ELSE mark
              /\ cur' = NextInput(success, slot.path, cur)
              /\ current_file' = CommitFile(success, slot.path, current_file)
              /\ history' = CommitHistory(success, history, op, slot.version)
              /\ stored' = SaveOnSuccess(success,
                                          Record(history', current_file', version'),
                                          stored)
              /\ results' = results \o ResultLines(success, op.type)
              /\ queue' = RestOfLoop(success, queue)
    /\ UNCHANGED <<session, pc, parsed, start, ret, batches, encode>>
    /\ UNCHANGED <<parserVars, queueVars>>

\* process_prompt after the for loop: the style note, save_session, the summary
finish_prompt ==
    /\ pc = "loop"
    /\ queue = <<>>
    /\ results' = <<>>
    /\ stored' = Record(history, current_file, version)
    /\ ret' = [kind |-> "summary", applied |-> Len(parsed.operations),
               results |-> IF parsed.requires_suno
                           THEN Append(results, [line |-> "style", type |-> "suno"])
                           ELSE results,
               version |-> version, output |-> current_file]
    /\ pc' = "idle"
    /\ cur' = None
    /\ UNCHANGED <<session, history, current_file, version, files, parsed, queue,
                   calls, start, mark, artifacts, batches, encode>>
    /\ UNCHANGED <<parserVars, queueVars>>

prev_version_Same(v) == v

\* `prev_version = self.session.version - 1`
prev_version(v) == v - 1

\* MixEngineer.undo. The glob's first match is whichever the directory
\* listing yields first.
undo ==
    /\ pc = "idle"
    /\ \/ /\ ~session \/ version < 2
          /\ ret' = [kind |-> "nothing_to_undo"]
          /\ UNCHANGED <<mark>>
          /\ UNCHANGED sessionVars
       \/ /\ session
          /\ version >= 2
          /\ glob_version(files, prev_version(version)) = {}
          /\ ret' = [kind |-> "not_found"]
          /\ UNCHANGED <<mark>>
          /\ UNCHANGED sessionVars
       \/ /\ session
          /\ version >= 2
          /\ \E prev_file \in glob_version(files, prev_version(version)) :
                /\ current_file' = prev_file
                /\ stored' = Record(history, prev_file, prev_version(version))
          /\ version' = prev_version(version)
          /\ ret' = [kind |-> "reverted", version |-> prev_version(version)]
          /\ mark' = [mark EXCEPT !.undone = TRUE]
          /\ UNCHANGED <<session, history>>
    /\ UNCHANGED <<files, artifacts, batches>>
    /\ NoLoop
    /\ UNCHANGED <<parserVars, queueVars>>

NoFileToExport_SessionOnly(s, file) == ~s

\* `if not self.session or not self.session.current_file`
NoFileToExport(s, file) == ~s \/ file = None

\* MixEngineer.export. The ffmpeg run's CompletedProcess is dropped: its
\* exit is kept in `encode` only. The file it writes is in PROCESSED_DIR,
\* outside the session directory.
export ==
    /\ pc = "idle"
    /\ \E filename \in ExportNames :
          \/ /\ NoFileToExport(session, current_file)
             /\ ret' = [kind |-> "no_file"]
             /\ NoLoop
          \/ /\ ~NoFileToExport(session, current_file)
             /\ \E exit \in {"ok", "failed"} : encode' = exit
             /\ ret' = [kind |-> "exported", output |-> filename]
             /\ NoLocals
    /\ UNCHANGED <<files, mark, artifacts, batches>>
    /\ UNCHANGED sessionVars
    /\ UNCHANGED <<parserVars, queueVars>>

\* The process ends and another one begins: MixEngineer.__init__ sets
\* session to None; what a MixSession held in memory is gone, session.json
\* and the files of the session directory stay. `ret` keeps what was in
\* memory at that moment, and what process_prompt started from when it
\* was running.
stop ==
    /\ session' = FALSE
    /\ history' = <<>>
    /\ current_file' = None
    /\ version' = 0
    /\ ret' = [kind |-> "stopped", at |-> pc, session |-> session,
               history |-> history, current_file |-> current_file,
               version |-> version, start |-> start]
    /\ UNCHANGED <<stored, files, mark, artifacts, batches>>
    /\ NoLoop
    /\ UNCHANGED <<parserVars, queueVars>>

Next ==
    \/ start_session
    \/ set_source
    \/ process_prompt
    \/ apply_operation
    \/ finish_prompt
    \/ undo
    \/ export

Spec == Init /\ [][Next]_vars

\* the same program, whose process may end at any point between two steps
SpecStop == Init /\ [][Next \/ stop]_vars

\* ------------------------------------------------------ PromptParser

\* the phrases the texts given to parse are made of
Phrases ==
    { <<"m","a","k","e"," ","i","t"," ","b","r","i","g","h","t","e","r">>,
      <<"a","d","d"," ","s","o","m","e"," ","r","e","v","e","r","b">>,
      <<"t","u","r","n"," ","i","t"," ","d","o","w","n"," ","7","d","b">>,
      <<"h","e","l","l","o"," ","t","h","e","r","e">>,
      <<"f","i","x"," ","t","h","e"," ","e","q">>,
      <<"p","u","n","c","h","y">>,
      <<"w","i","d","e","r">>,
      <<"m","a","s","t","e","r"," ","i","t">>,
      <<"n","e","w"," ","g","e","n","r","e">>,
      <<"t","u","r","n"," ","d","o","w","n"," ","7","d","b">> }

\* one to MaxPhrases different phrases, in every order
PhraseSeqs ==
    UNION { {s \in [1..n -> Phrases] : \A i, j \in 1..n : i # j => s[i] # s[j]} :
            n \in 1..MaxPhrases }

\* the phrases of s joined by " and "
RECURSIVE Join(_)
Join(s) == IF Len(s) = 1 THEN s[1] ELSE s[1] \o <<" ","a","n","d"," ">> \o Join(Tail(s))

Texts == {Join(s) : s \in PhraseSeqs}

InitParse ==
    /\ MixInit
    /\ parse_prompt \in Texts
    /\ parse_result = NoParse
    /\ GenerationQueue_init(DefaultRetries)

\* a call of PromptParser.parse
PromptParser_parse ==
    /\ parse_result = NoParse
    /\ parse_result' = parse(parse_prompt)
    /\ UNCHANGED <<parse_prompt, mixVars, queueVars>>

SpecParse == InitParse /\ [][PromptParser_parse]_vars

\* --------------------------------------------------- GenerationQueue

\* the max_retries given to the constructor
RetryLimits == 0..MaxRetries

\* the `limit` given to process_queue: <<>> is None, <<n>> the number n
Limits == {<<>>, <<0>>, <<1>>, <<2>>}

InitQueue ==
    /\ MixInit
    /\ ParserInit
    /\ \E retries \in RetryLimits : GenerationQueue_init(retries)

\* f"job_{len(self.queue) + len(self.completed) + 1}_{int(time.time())}"
job_id(q, c, f, now) == [n |-> Len(q) + Len(c) + 1, t |-> now]

\* GenerationJob(id=job_id, ...): status "pending", retries 0. `attempts`
\* counts the process_job calls on the job, `won` whether the last one
\* returned True; title, lyrics and tags play no part.
GenerationJob(id) ==
    [id |-> id, status |-> "pending", retries |-> 0, attempts |-> 0, won |-> FALSE]

\* GenerationQueue.add_job. The lists hold references: indices into jobs.
add_job ==
    /\ qpc = "idle"
    /\ Len(jobs) < MaxJobs
    /\ jobs' = Append(jobs, GenerationJob(job_id(job_queue, completed, failed, clock)))
    /\ job_queue' = Append(job_queue, Len(jobs) + 1)
    /\ UNCHANGED <<max_retries, completed, failed, clock, qpc, jobs_to_process,
                   job_success, taken>>
    /\ UNCHANGED <<mixVars, parserVars>>

\* a second passes between two calls
second ==
    /\ qpc = "idle"
    /\ clock < MaxIdle
    /\ clock' = clock + 1
    /\ UNCHANGED <<max_retries, job_queue, completed, failed, jobs, qpc,
                   jobs_to_process, job_success, taken>>
    /\ UNCHANGED <<mixVars, parserVars>>

\* `self.queue[:limit] if limit else self.queue[:]`: None and 0 are both
\* false
Slice(q, limit) ==
    IF limit = <<>> \/ limit = <<0>> THEN q
    ELSE SubSeq(q, 1, IF limit[1] < Len(q) THEN limit[1] ELSE Len(q))

\* GenerationQueue.process_queue up to the for loop; with an empty slice
\* it returns at once
process_queue ==
    /\ qpc = "idle"
    /\ \E limit \in Limits :
          /\ jobs_to_process' = Slice(job_queue, limit)
          /\ taken' = [queue |-> job_queue, completed |-> completed,
                       failed |-> failed, slice |-> Slice(job_queue, limit)]
    /\ qpc' = IF jobs_to_process' = <<>> THEN "idle" ELSE "while"
    /\ job_success' = FALSE
    /\ UNCHANGED <<max_retries, job_queue, completed, failed, jobs, clock>>
    /\ UNCHANGED <<mixVars, parserVars>>

\* `while job.retries < self.max_retries and not success`
Retrying(job, ok, limit) == job.retries < limit /\ ~ok

\* the least time the sleeps of a process_job that returns True take:
\* 3 s in navigate_to_create, then 2 s and 1 s
GenerateSeconds == 6

\* `time.sleep(10)` after a process_job that returned False
RetrySeconds == 10

\* `time.sleep(self.delay)` between two jobs, delay_between_jobs = 30
DelaySeconds == 30

\* One turn of the while loop: process_job returns True or False (always
\* False without a driver), and a False is counted and slept on. Times
\* are at their least: a longer call only moves the clock further.
process_job ==
    /\ qpc = "while"
    /\ LET j == Head(jobs_to_process)
       IN  /\ Retrying(jobs[j], job_success, max_retries)
           /\ \E ok \in BOOLEAN :
                 /\ job_success' = ok
                 /\ jobs' = [jobs EXCEPT ![j] =
                                [@ EXCEPT !.status = IF ok THEN "completed" ELSE "failed",
                                          !.retries = IF ok THEN @ ELSE @ + 1,
                                          !.attempts = @ + 1,
                                          !.won = ok]]
                 /\ clock' = clock + (IF ok THEN GenerateSeconds ELSE RetrySeconds)
    /\ UNCHANGED <<max_retries, job_queue, completed, failed, qpc, jobs_to_process,
                   taken>>
    /\ UNCHANGED <<mixVars, parserVars>>

Remove_Keep(q, j) == q

\* `if job in self.queue: self.queue.remove(job)`: the first occurrence
Remove(q, j) ==
    IF \E i \in DOMAIN q : q[i] = j
    THEN LET k == CHOOSE i \in DOMAIN q : q[i] = j /\ \A h \in 1..(i - 1) : q[h] # j
         IN  SubSeq(q, 1, k - 1) \o SubSeq(q, k + 1, Len(q))
    ELSE q

\* process_queue after the while loop: the job goes to completed or to
\* failed and leaves the queue; then the delay and the next job, or the
\* return
place_job ==
    /\ qpc = "while"
    /\ LET j == Head(jobs_to_process)
       IN  /\ ~Retrying(jobs[j], job_success, max_retries)
           /\ completed' = IF job_success THEN Append(completed, j) ELSE completed
           /\ failed' = IF job_success THEN failed ELSE Append(failed, j)
           /\ job_queue' = Remove(job_queue, j)
    /\ jobs_to_process' = Tail(jobs_to_process)
    /\ clock' = IF jobs_to_process' # <<>> THEN clock + DelaySeconds ELSE clock
    /\ qpc' = IF jobs_to_process' # <<>> THEN "while" ELSE "idle"
    /\ job_success' = FALSE
    /\ UNCHANGED <<max_retries, jobs, taken>>
    /\ UNCHANGED <<mixVars, parserVars>>

NextQueue ==
    \/ add_job
    \/ second
    \/ process_queue
    \/ process_job
    \/ place_job

SpecQueue == InitQueue /\ [][NextQueue]_vars

\* ------------------------------------------------------------- claims

\* the engine calls of `c` that succeeded
Successes(c) == {i \in DOMAIN c : c[i].outcome = "ok"}

\* a step of the for loop made an engine call: the call is the last of calls'
EngineCall == Len(calls') = Len(calls) + 1

LastCall == calls'[Len(calls')]

\* process_prompt has just returned its summary
Returned == pc = "idle" /\ ret.kind = "summary"

\* the step that returns from process_prompt
Returns == pc = "loop" /\ pc' = "idle"

Types(s) == [i \in DOMAIN s |-> s[i].type]

\* C1: every operation whose engine call succeeds, master included, raises
\* session.version by exactly 1.
C1_SuccessRaisesVersionByOne ==
    [][(EngineCall /\ LastCall.outcome = "ok") => version' = version + 1]_vars

\* C2: an operation whose engine call fails leaves session.version as it
\* was, and a process_prompt call in which no operation succeeded returns
\* with the version it started with.
C2_FailureKeepsVersion ==
    [][/\ (EngineCall /\ LastCall.outcome = "failed") => version' = version
       /\ (Returns /\ Successes(calls) = {}) => version' = start.version]_vars

\* the "success" records appended to history since the last set_source
SuccessRecords ==
    {i \in (mark.history + 1)..Len(history) : history[i].result = "success"}

\* C3: between calls, session.version is the number of "success" records
\* appended to the history since the last set_source.
C3_VersionCountsSuccessRecords ==
    (session /\ pc = "idle" /\ mark.output # None)
        => version = Cardinality(SuccessRecords)

\* C4: undo answers "Nothing to undo" exactly when the version is below 1,
\* and from a version N >= 1 whose version N-1 artifact the glob finds it
\* reverts to version N-1.
C4_UndoFromVersionOne ==
    [][(undo /\ session) =>
          /\ (ret'.kind = "nothing_to_undo") <=> (version < 1)
          /\ (version >= 1 /\ glob_version(files, version - 1) # {})
                => (ret'.kind = "reverted" /\ version' = version - 1)]_vars

\* C5: after a process_prompt call that applied exactly one operation, an
\* undo that reports success restores the current file and the version
\* the session had before that operation.
C5_ApplyUndoRoundTrip ==
    [][(/\ undo
        /\ ret.kind = "summary"
        /\ Len(calls) = 1
        /\ calls[1].outcome = "ok"
        /\ ret'.kind = "reverted")
          => (current_file' = start.file /\ version' = start.version)]_vars

\* C6: the output path derived for a new operation is the path of no
\* artifact the session has produced before.
C6_FreshOutputPath ==
    [][EngineCall => LastCall.output \notin artifacts]_vars

\* the input the i-th call of a batch must have: the output of the last
\* successful call before it, or the file current when the batch began
ChainedInput(i) ==
    LET before == {j \in Successes(calls) : j < i}
    IN  IF before = {} THEN start.file
        ELSE calls[CHOOSE j \in before : \A k \in before : k <= j].output

\* C7: within one process_prompt call every operation reads the output of
\* the most recent successful operation of the call (the file current at
\* its start if there is none), and a failed operation's output path is
\* neither read by an operation nor made the session's current file.
C7_ChainSkipsFailedOutputs ==
    \A i \in DOMAIN calls :
        /\ calls[i].input = ChainedInput(i)
        /\ calls[i].outcome # "ok" =>
              /\ \A j \in DOMAIN calls : calls[j].input # calls[i].output
              /\ current_file # calls[i].output
              /\ cur # calls[i].output

C7_Witness ==
    /\ Returned
    /\ Len(calls) = 3
    /\ calls[1].outcome = "ok"
    /\ calls[2].outcome = "failed"
    /\ calls[3].outcome = "ok"
    /\ calls[3].input = calls[1].output
    /\ current_file = calls[3].output

\* C8: with no undo since the last set_source, the current file is the
\* output of the last engine call that succeeded since then, or the
\* source if none has.
C8_CurrentFileIsLastSuccess ==
    (session /\ mark.output # None /\ ~mark.undone) => current_file = mark.output

C8_Witness ==
    /\ Returned
    /\ ~mark.undone
    /\ Len(calls) = 3
    /\ calls[2].outcome = "ok"
    /\ calls[3].outcome = "failed"
    /\ current_file = calls[2].output

\* C9: a failed engine call appends a "failure" record to the history, so
\* a batch appends as many records as it attempted operations.
C9_FailureIsRecorded ==
    [][/\ (EngineCall /\ LastCall.outcome = "failed")
            => /\ Len(history') = Len(history) + 1
               /\ history'[Len(history')].result = "failure"
       /\ Returns => Len(history') - start.history = Len(calls')]_vars

SourceSet == pc = "idle" /\ ret.kind = "set_source" /\ ret.ok

\* C11: right after a set_source(A) that returned True the version is 0 and
\* the file is A, and an undo called then returns "Nothing to undo" and
\* leaves the file at A, the version at 0, the history and session.json as
\* they were.
C11_UndoAfterSetSource ==
    [][SourceSet =>
          /\ version = 0
          /\ current_file = ret.path
          /\ undo => /\ ret'.kind = "nothing_to_undo"
                     /\ current_file' = ret.path
                     /\ version' = 0
                     /\ history' = history
                     /\ stored' = stored]_vars

\* undo has refused right after a set_source that came after two batches
C11_Witness ==
    /\ ret.kind = "nothing_to_undo"
    /\ session
    /\ version = 0
    /\ current_file = SourcePath("a.wav")
    /\ stored = Record(history, current_file, 0)
    /\ mark.history = Len(history)
    /\ ~mark.undone
    /\ batches = MaxBatches
    /\ Len(history) >= 2

\* C12: undo never changes the history. When it reverts, the version goes
\* down by exactly 1, the file becomes a file of the session directory and
\* nothing else of the session changes but session.json, which is saved.
\* When it finds no file of the previous version, the file, the version,
\* the history and session.json are as before, and the session still has
\* a source for process_prompt to work on.
C12_UndoFrame ==
    [][undo =>
          /\ history' = history
          /\ files' = files
          /\ session' = session
          /\ ret'.kind = "reverted" =>
                /\ version' = version - 1
                /\ current_file' \in files
                /\ stored' = Record(history, current_file', version')
          /\ ret'.kind = "not_found" =>
                /\ current_file' = current_file
                /\ version' = version
                /\ stored' = stored
                /\ session'
                /\ current_file' # None
                /\ pc' = "idle"]_vars

\* undo has found no file of the previous version
C12_Witness ==
    /\ ret.kind = "not_found"
    /\ version >= 2
    /\ Len(history) >= 1

IsPrefix(s, u) == Len(s) <= Len(u) /\ \A i \in DOMAIN s : u[i] = s[i]

\* C13: history is append-only: whatever is called (start_session on the
\* same name, set_source, process_prompt, undo, export), the history
\* before the step is a prefix of the history after it.
C13_HistoryAppendOnly ==
    [][IsPrefix(history, history')]_vars

\* an export on a history of two records, after an undo
C13_Witness ==
    /\ ret.kind = "exported"
    /\ Len(history) >= 2
    /\ mark.undone

\* the "success" records of h
SuccessCount(h) == Cardinality({i \in DOMAIN h : h[i].result = "success"})

\* the first call of a new process is start_session, and the process
\* before it had a session when it was stopped
Resumes == ret.kind = "stopped" /\ ret.session /\ start_session

\* C14: when the process is stopped between two operations of a batch or
\* between two calls, the session resumed by the same name has the history
\* and the file that were in memory at the stop: the file is the output of
\* the last successful engine call (or the source set after it) unless an
\* undo moved it, and the history has one "success" record per engine call
\* that ever succeeded.
C14_CrashConsistency ==
    [][Resumes =>
          /\ history' = ret.history
          /\ current_file' = ret.current_file
          /\ ~mark.undone => current_file' = mark.output
          /\ SuccessCount(history') = mark.done]_vars

\* resumed after a stop inside a batch that had made a successful call
C14_Witness ==
    /\ ret.kind = "started"
    /\ ret.after = "loop"
    /\ ~mark.undone
    /\ mark.done >= 1
    /\ current_file = mark.output
    /\ current_file \in artifacts

\* what was in memory when the last call returned, as `ret` of stop has it
LastReturn ==
    IF ret.at = "loop"
    THEN [history |-> SubSeq(ret.history, 1, ret.start.history),
          current_file |-> ret.start.file,
          version |-> ret.start.version]
    ELSE [history |-> ret.history, current_file |-> ret.current_file,
          version |-> ret.version]

\* what the last save_session wrote, as `ret` of stop has it: inside a
\* batch, the state after its last successful operation
LastSave ==
    IF ret.at = "loop" /\ Len(ret.history) > ret.start.history
    THEN [history |-> ret.history, current_file |-> ret.current_file,
          version |-> ret.history[Len(ret.history)].version]
    ELSE LastReturn

Memory == [history |-> history, current_file |-> current_file, version |-> version]

\* C15 as stated: a MixSession created for a name without session.json has
\* version 0, no history and no file; one created for a name with a
\* session.json has the history, file and version that were in memory when
\* the last mutating call returned.
C15_ResumeIsLastReturn ==
    [][start_session =>
          /\ ~stored.exists => Memory' = [history |-> <<>>, current_file |-> None,
                                          version |-> 0]
          /\ (stored.exists /\ session) => Memory' = Memory
          /\ (stored.exists /\ Resumes) => Memory' = LastReturn]_vars

\* C15 amended: with a session.json, the new MixSession has what the last
\* save wrote: the memory at the return of the last mutating call, or,
\* when the process was stopped inside process_prompt after a successful
\* operation, the memory right after the last successful operation.
C15_ResumeIsLastSave ==
    [][start_session =>
          /\ ~stored.exists => Memory' = [history |-> <<>>, current_file |-> None,
                                          version |-> 0]
          /\ (stored.exists /\ session) => Memory' = Memory
          /\ (stored.exists /\ Resumes) => Memory' = LastSave]_vars

\* resumed, from a stop inside a second batch, at the second success
C15_Witness ==
    /\ ret.kind = "started"
    /\ ret.after = "loop"
    /\ stored.exists
    /\ version = 2
    /\ Len(history) = 2
    /\ batches = 2

\* C16: set_source with a path that does not exist returns False and
\* leaves file, version, history and session.json as they were; with a
\* path that exists and a session it makes the path the file, the version
\* 0, keeps the history and saves the three.
C16_SetSource ==
    [][set_source =>
          /\ (ret'.kind = "set_source" /\ ~ret'.ok) =>
                /\ UNCHANGED sessionVars
                /\ files' = files
          /\ (ret'.kind = "set_source" /\ ret'.ok) =>
                /\ current_file' = ret'.path
                /\ version' = 0
                /\ history' = history
                /\ stored' = [exists |-> TRUE, history |-> history,
                              current_file |-> ret'.path, version |-> 0]]_vars

\* set_source has refused a missing path in a session that has versions
C16_Witness ==
    /\ ret.kind = "set_source"
    /\ ~ret.ok
    /\ session
    /\ version >= 2
    /\ current_file \in artifacts

EarlyReturns == {"no_session", "no_source", "suggest_operations"}

\* C17: a process_prompt that returns the no-session text, the no-source
\* text or the suggestions leaves file, version, history, session.json and
\* the session directory as they were and has made no engine call; the
\* suggestions are returned for a text without operations and without the
\* style flag, the other two for a missing session and a missing source;
\* and the for loop is entered with operations or the style flag only.
C17_EarlyReturnsChangeNothing ==
    [][process_prompt =>
          /\ (pc' = "idle" /\ ret'.kind \in EarlyReturns) =>
                /\ UNCHANGED sessionVars
                /\ files' = files
                /\ artifacts' = artifacts
                /\ mark' = mark
                /\ calls' = <<>>
          /\ (pc' = "idle" /\ ret'.kind = "no_session") => ~session
          /\ (pc' = "idle" /\ ret'.kind = "no_source") => current_file = None
          /\ (pc' = "idle" /\ ret'.kind = "suggest_operations") =>
                /\ session
                /\ current_file # None
                /\ Parsed[ret'.prompt].operations = <<>>
                /\ ~Parsed[ret'.prompt].requires_suno
          /\ pc' = "loop" => parsed'.operations # <<>> \/ parsed'.requires_suno]_vars

\* the suggestions were returned in a session that has versions
C17_Witness ==
    /\ ret.kind = "suggest_operations"
    /\ pc = "idle"
    /\ version >= 1
    /\ Len(history) >= 1
    /\ calls = <<>>

\* C18: export leaves version, history, file and session.json as they
\* were whatever ffmpeg's exit is, and without a session or without a file
\* it returns "No file to export" and does not run ffmpeg.
C18_ExportFrame ==
    [][export =>
          /\ UNCHANGED sessionVars
          /\ files' = files
          /\ artifacts' = artifacts
          /\ (~session \/ current_file = None) =>
                /\ ret'.kind = "no_file"
                /\ encode' = "none"
          /\ encode' # "none" => ret'.kind = "exported"]_vars

\* an export whose ffmpeg run failed, in a session that has versions
C18_Witness ==
    /\ ret.kind = "exported"
    /\ encode = "failed"
    /\ version >= 1
    /\ Len(history) >= 1

\* C19: when the ffmpeg run of export fails, what export returns is not
\* what it returns for a successful run.
C19_ExportReportsFailure ==
    encode = "failed" => ret.kind # "exported"

\* the lines of the style note in a summary
StyleLines(r) == {i \in DOMAIN r : r[i].line = "style"}

\* the master operations among calls c: each makes a second
\* get_versioned_path call
Masters(c) == {i \in DOMAIN c : c[i].type = "master"}

\* C20: when process_prompt returns for a text with a style keyword, the
\* engine calls it made are the operations parsed from the text, all of
\* them and nothing else, none of them a style operation; the history grew
\* by one record per successful call and the version by the
\* get_versioned_path calls of the operations, so by nothing when the text
\* has the style keyword only, and then the file is as before; the summary
\* ends with the one style note.
C20_StyleIsNoteOnly ==
    (Returned /\ parsed.requires_suno) =>
        /\ Types(calls) = Types(parsed.operations)
        /\ \A i \in DOMAIN calls :
              calls[i].type \in {"eq", "compression", "reverb", "volume",
                                 "stereo_width", "master"}
        /\ Len(history) - start.history = Cardinality(Successes(calls))
        /\ version - start.version = Len(calls) + Cardinality(Masters(calls))
        /\ calls = <<>> => current_file = start.file
        /\ Successes(calls) = {} => current_file = start.file
        /\ ret.results # <<>>
        /\ StyleLines(ret.results) = {Len(ret.results)}

\* "darker vibe" has returned: one eq call, which succeeded, and the note
C20_Witness ==
    /\ Returned
    /\ parsed.requires_suno
    /\ Len(calls) = 1
    /\ calls[1].type = "eq"
    /\ calls[1].outcome = "ok"
    /\ current_file = calls[1].output

\* parse has returned for the text it was given
ParseReturned == parse_prompt # <<>> /\ parse_result.original = parse_prompt

\* the families in the order the claims give, each with its keywords
FamilyOrder ==
    << [type |-> "eq", keywords |-> EQ_KEYWORDS],
       [type |-> "compression", keywords |-> COMPRESSION_KEYWORDS],
       [type |-> "reverb", keywords |-> REVERB_KEYWORDS],
       [type |-> "volume", keywords |-> VOLUME_KEYWORDS],
       [type |-> "stereo_width", keywords |-> WIDTH_KEYWORDS],
       [type |-> "master", keywords |-> MASTER_KEYWORDS] >>

\* the types of the families i..6 that have a keyword in the lower-cased p
RECURSIVE MatchedFrom(_, _)
MatchedFrom(p, i) ==
    IF i > Len(FamilyOrder) THEN <<>>
    ELSE (IF AnyKeyword(p, FamilyOrder[i].keywords) THEN <<FamilyOrder[i].type>>
          ELSE <<>>) \o MatchedFrom(p, i + 1)

\* parse on every text, computed once
ParsedTexts == [x \in Texts |-> parse(x)]

Range(s) == {s[i] : i \in DOMAIN s}

BrighterReverb ==
    {Join(<<<<"m","a","k","e"," ","i","t"," ","b","r","i","g","h","t","e","r">>, <<"a","d","d"," ","s","o","m","e"," ","r","e","v","e","r","b">>>>),
     Join(<<<<"a","d","d"," ","s","o","m","e"," ","r","e","v","e","r","b">>, <<"m","a","k","e"," ","i","t"," ","b","r","i","g","h","t","e","r">>>>)}

\* C21: the operation list of parse holds one operation for each family
\* that has a keyword in the lower-cased text and none for the others, in
\* the order eq, compression, reverb, volume, stereo_width, master; the
\* texts made of the same phrases in another order give the same list; and
\* the two texts of brighter and reverb give eq(treble +3), reverb(0.5,
\* 0.5, 0.3).
C21_ParseOrder ==
    ParseReturned =>
        /\ Types(parse_result.operations) = MatchedFrom(lower(parse_prompt), 1)
        /\ \A i, j \in DOMAIN parse_result.operations :
              i # j => parse_result.operations[i].type # parse_result.operations[j].type
        /\ \A s \in PhraseSeqs :
              Join(s) = parse_prompt =>
                 \A u \in PhraseSeqs :
                    Range(u) = Range(s) =>
                       ParsedTexts[Join(u)].operations = parse_result.operations
        /\ parse_prompt \in BrighterReverb =>
              parse_result.operations =
                 << [type |-> "eq", params |-> [bass |-> 0, mid |-> 0, treble |-> 3]],
                    [type |-> "reverb",
                     params |-> [room_size |-> 50, damping |-> 50, wet |-> 30]] >>

\* parse has returned for "add some reverb and make it brighter"
C21_Witness ==
    /\ ParseReturned
    /\ parse_prompt = Join(<<<<"a","d","d"," ","s","o","m","e"," ","r","e","v","e","r","b">>, <<"m","a","k","e"," ","i","t"," ","b","r","i","g","h","t","e","r">>>>)
    /\ Len(parse_result.operations) = 2
    /\ parse_result.operations[1].type = "eq"

\* C22: requires_audio_processing is true exactly when the operation list
\* is not empty, requires_suno exactly when a style keyword is in the
\* lower-cased text; a text with no keyword at all, as "hello there", has
\* no operation and both flags false.
C22_Flags ==
    ParseReturned =>
        /\ parse_result.requires_audio_processing <=> parse_result.operations # <<>>
        /\ parse_result.requires_suno <=> AnyKeyword(lower(parse_prompt), STYLE_KEYWORDS)
        /\ (MatchedFrom(lower(parse_prompt), 1) = <<>>
            /\ ~AnyKeyword(lower(parse_prompt), STYLE_KEYWORDS))
              => /\ parse_result.operations = <<>>
                 /\ ~parse_result.requires_audio_processing
                 /\ ~parse_result.requires_suno
        /\ parse_prompt = <<"h","e","l","l","o"," ","t","h","e","r","e">> =>
              /\ parse_result.operations = <<>>
              /\ ~parse_result.requires_audio_processing
              /\ ~parse_result.requires_suno

\* parse has returned for "hello there"
C22_Witness ==
    /\ ParseReturned
    /\ parse_prompt = <<"h","e","l","l","o"," ","t","h","e","r","e">>
    /\ parse_result.operations = <<>>
    /\ ~parse_result.requires_suno

\* C23: parse("turn it down 7db") is one volume operation of -7 dB.
C23_ExplicitDecibels ==
    (ParseReturned /\ parse_prompt = <<"t","u","r","n"," ","i","t"," ","d","o","w","n"," ","7","d","b">>)
        => parse_result.operations = <<[type |-> "volume", params |-> [db |-> -7]]>>

\* C26: every eq operation parse emits has a gain that is not 0.
C26_EqHasGain ==
    ParseReturned =>
        \A i \in DOMAIN parse_result.operations :
           parse_result.operations[i].type = "eq" =>
              \/ parse_result.operations[i].params.bass # 0
              \/ parse_result.operations[i].params.mid # 0
              \/ parse_result.operations[i].params.treble # 0

\* C24: a master operation is always the last operation of its batch, has
\* no parameters, and hands chain_effects the same five filters in the
\* same order: high-pass 30 Hz, compressor -18 dB 3:1, the two equalizer
\* bands, the limiter at -1 dB, loudnorm at -14 LUFS; no other operation
\* uses the chain; and a text with a master keyword always has the master
\* operation, which has run when process_prompt returns.
C24_MasterChain ==
    /\ \A i \in DOMAIN calls :
          IF calls[i].type = "master"
          THEN /\ calls[i].chain =
                    << "highpass=f=30",
                       "acompressor=threshold=-18dB:ratio=3:attack=10:release=100",
                       "equalizer=f=100:t=q:w=1:g=1,equalizer=f=10000:t=q:w=1:g=1.5",
                       "alimiter=limit=-1dB:level=false",
                       "loudnorm=I=-14:TP=-1.5:LRA=11" >>
               /\ i = Len(parsed.operations)
               /\ parsed.operations[i].params = NoParams
          ELSE calls[i].chain = <<>>
    /\ ((pc = "loop" \/ Returned) /\ AnyKeyword(lower(parsed.original), MASTER_KEYWORDS))
          => parsed.operations[Len(parsed.operations)].type = "master"
    /\ (Returned /\ AnyKeyword(lower(parsed.original), MASTER_KEYWORDS))
          => calls[Len(calls)].type = "master"

\* "polish the wide mix" has returned: stereo_width, then master on its output
C24_Witness ==
    /\ Returned
    /\ Len(calls) = 2
    /\ calls[1].type = "stereo_width"
    /\ calls[1].outcome = "ok"
    /\ calls[2].type = "master"
    /\ calls[2].outcome = "ok"
    /\ calls[2].input = calls[1].output

\* the lines of the operations in a summary
Entries(r) == SelectSeq(r, LAMBDA x : x.line = "applied")

\* the index in r of its n-th operation line
RECURSIVE EntryAt(_, _, _)
EntryAt(r, n, from) ==
    IF r[from].line = "applied"
    THEN (IF n = 1 THEN from ELSE EntryAt(r, n - 1, from + 1))
    ELSE EntryAt(r, n, from + 1)

\* the n-th operation line of r is followed by a failure note
Noted(r, n) ==
    LET k == EntryAt(r, n, 1)
    IN  k < Len(r) /\ r[k + 1].line = "failed" /\ r[k + 1].type = r[k].type

\* C25: the summary process_prompt returns has one operation line per
\* engine call, in the order of the calls, a failure note right after the
\* line of each call that returned False and after no other, as many
\* failure notes as failed calls, the count of the parsed operations, and
\* the version and the file the session has at the return.
C25_SummaryReconciles ==
    Returned =>
        /\ Types(Entries(ret.results)) = Types(calls)
        /\ \A n \in DOMAIN calls : Noted(ret.results, n) <=> calls[n].outcome # "ok"
        /\ Cardinality({k \in DOMAIN ret.results : ret.results[k].line = "failed"})
              = Cardinality(DOMAIN calls \ Successes(calls))
        /\ ret.applied = Len(calls)
        /\ ret.version = version
        /\ ret.output = current_file

\* a summary of three operations: the second failed, the others did not
C25_Witness ==
    /\ Returned
    /\ Len(calls) = 3
    /\ calls[1].outcome = "ok"
    /\ calls[2].outcome = "failed"
    /\ calls[3].outcome = "ok"
    /\ Len(ret.results) = 4
    /\ ret.version = 3

\* C27: no two files of the session directory have the same version
\* number, so the glob of undo has at most one match.
C27_OneFilePerVersion ==
    /\ \A f, g \in files : f.tag = g.tag => f = g
    /\ version >= 2 => Cardinality(glob_version(files, version - 1)) <= 1

\* how many times the job j is in the list s
Count(s, j) == Cardinality({i \in DOMAIN s : s[i] = j})

\* the step on which a process_queue call returns
QueueReturns == qpc' = "idle" /\ (place_job \/ process_queue)

\* C28: process_queue partitions the jobs. At every step each job is in
\* exactly one place among queue, completed and failed, and no step of
\* process_queue changes the sum of the three lengths; the job that
\* leaves the while loop goes to one of completed and failed and out of
\* the queue; when the call returns, every job of its slice is in
\* completed or failed and not in the queue, the queue is what was behind
\* the slice, and completed and failed have only grown at the end.
C28_QueuePartition ==
    [][/\ \A j \in DOMAIN jobs' :
             Count(job_queue', j) + Count(completed', j) + Count(failed', j) = 1
       /\ (process_queue \/ process_job \/ place_job) =>
             Len(job_queue') + Len(completed') + Len(failed')
                = Len(job_queue) + Len(completed) + Len(failed)
       /\ place_job =>
             /\ Count(job_queue', Head(jobs_to_process)) = 0
             /\ Count(completed', Head(jobs_to_process))
                   + Count(failed', Head(jobs_to_process)) = 1
       /\ QueueReturns =>
             /\ \A i \in DOMAIN taken'.slice :
                   /\ Count(job_queue', taken'.slice[i]) = 0
                   /\ Count(completed' \o failed', taken'.slice[i]) = 1
             /\ job_queue' = SubSeq(taken'.queue, Len(taken'.slice) + 1,
                                    Len(taken'.queue))
             /\ IsPrefix(taken'.completed, completed')
             /\ IsPrefix(taken'.failed, failed')
             /\ Len(job_queue') + Len(completed') + Len(failed')
                   = Len(taken'.queue) + Len(taken'.completed) + Len(taken'.failed)]_vars

\* a call with limit 2 on three jobs has returned: one completed, one
\* failed, the third still queued
C28_Witness ==
    /\ qpc = "idle"
    /\ Len(taken.slice) = 2
    /\ Len(taken.queue) = 3
    /\ Len(completed) = 1
    /\ Len(failed) = 1
    /\ job_queue = <<3>>

\* C29: no job is attempted more than max_retries times or has retries
\* above max_retries; a job in completed was attempted at least once and
\* its last attempt, the only one to succeed, ended the loop; a job in
\* failed was attempted at least once, max_retries times in all, and
\* every attempt failed.
C29_BoundedRetries ==
    \A j \in DOMAIN jobs :
       /\ jobs[j].retries <= max_retries
       /\ jobs[j].attempts <= max_retries
       /\ Count(completed, j) > 0 =>
             /\ jobs[j].won
             /\ jobs[j].attempts >= 1
             /\ jobs[j].attempts = jobs[j].retries + 1
       /\ Count(failed, j) > 0 =>
             /\ ~jobs[j].won
             /\ jobs[j].attempts >= 1
             /\ jobs[j].attempts = max_retries
             /\ jobs[j].retries = max_retries

\* C30: no two jobs have the same id.
C30_UniqueIds ==
    \A i, j \in DOMAIN jobs : i # j => jobs[i].id # jobs[j].id
====
